---- MODULE Spec2Model ----
(***************************************************************************)
(* Unified risk monitor: the risk scoring engine (backend/risk_scoring.py), *)
(* the database rows it reads and writes (backend/models.py,               *)
(* backend/database.py), the POST /transactions handler that triggers it   *)
(* (backend/main.py), the data agent's in-memory customer list             *)
(* (backend/mcp_agents.py) and the OSINT enrichment service                *)
(* (backend/osint_enrichment.py).                                          *)
(*                                                                         *)
(* Numbers.  Python floats are modelled as exact rationals in fixed point: *)
(*   - a factor value v is the integer v * FactorOne;                      *)
(*   - a weight w is the integer 100 * w (hundredths);                     *)
(*   - a score s is the integer s * ScoreOne, ScoreOne = 100 * FactorOne.  *)
(* FactorOne = 1200 * 365 makes every quotient the code takes (by 3, 5,    *)
(* 10, 30, 365, 30000 for amounts that are multiples of 50) exact.  The    *)
(* one irrational quantity, the coefficient of variation (a square root),  *)
(* is rounded down to hundredths.                                          *)
(***************************************************************************)
EXTENDS Integers, Sequences, FiniteSets, Bags, TLC

VARIABLES
    engine,        \* RiskScoringEngine instance: its two weight tables
    customers,     \* table customers: id -> row (committed state)
    transactions,  \* table transactions: bag of rows (committed state)
    risk_scores,   \* table risk_scores: sequence of rows (committed state)
    runs,          \* one entry per calculate_risk_scores invocation
    clock,         \* successive readings of datetime.utcnow() (instants)
    http,          \* the response of the latest POST /transactions
    requests,      \* number of POST /transactions requests served
    probe,         \* inputs and outputs of one direct evaluation of the engine
    generated_customers,  \* DataAgent.generated_customers (in memory)
    response       \* the latest reply of the data and OSINT endpoints

vars == <<engine, customers, transactions, risk_scores, runs, clock, http, requests,
          probe, generated_customers, response>>

\* the state of the services beside the engine and the database
services == <<generated_customers, response>>

(***************************************************************************)
(* Bounds of the model.                                                    *)
(***************************************************************************)
MaxRequests == 2    \* POST /transactions requests
MaxRuns == 3        \* invocations of calculate_risk_scores
MaxWorkers == 2     \* invocations in progress at the same time
MaxProbeTx == 3     \* length of the activity list of a direct evaluation
Today == 1000       \* the day (days since an epoch) on which the runs happen
SeedAge == 100      \* days between the seeding of the database and the runs

(***************************************************************************)
(* Fixed point.                                                            *)
(***************************************************************************)
FactorOne == 1200 * 365
ScoreOne == 100 * FactorOne

Min(a, b) == IF a <= b THEN a ELSE b
Max(a, b) == IF a >= b THEN a ELSE b

\* clamp(v, 0, one) of the specification (the code has no such helper)
Clamp(v, one) == Max(0, Min(v, one))

(***************************************************************************)
(* risk_scoring.py: RiskScoringEngine.__init__                             *)
(***************************************************************************)
CreditFactors ==
    {"payment_history", "credit_utilization", "account_age",
     "transaction_frequency", "amount_consistency"}

AmlFactors ==
    {"structuring_patterns", "high_risk_merchants", "offshore_transactions",
     "cash_equivalents", "amount_frequency", "time_patterns"}

\* a table whose weights sum to 0.90
credit_weights_short ==
    [payment_history |-> 25, credit_utilization |-> 30, account_age |-> 15,
     transaction_frequency |-> 10, amount_consistency |-> 10]

credit_weights ==
    [payment_history |-> 35, credit_utilization |-> 30, account_age |-> 15,
     transaction_frequency |-> 10, amount_consistency |-> 10]

aml_weights ==
    [structuring_patterns |-> 25, high_risk_merchants |-> 20,
     offshore_transactions |-> 20, cash_equivalents |-> 15,
     amount_frequency |-> 10, time_patterns |-> 10]

EngineInit == [credit_weights |-> credit_weights, aml_weights |-> aml_weights]

(***************************************************************************)
(* Sums and counts over a list of transactions.                            *)
(***************************************************************************)
RECURSIVE SumAmount(_)
SumAmount(txs) ==
    IF txs = <<>> THEN 0 ELSE Head(txs).amount + SumAmount(Tail(txs))

RECURSIVE SumSquares50(_)
\* sum of (amount / 50)^2: the amounts of the model are multiples of 50
SumSquares50(txs) ==
    IF txs = <<>> THEN 0
    ELSE (Head(txs).amount \div 50) * (Head(txs).amount \div 50)
         + SumSquares50(Tail(txs))

\* sum(factors[f] * weights[f] for f in factors), in units of 1 / ScoreOne
RECURSIVE WeightedSum(_, _, _)
WeightedSum(factors, weights, names) ==
    IF names = {} THEN 0
    ELSE LET f == CHOOSE n \in names : TRUE
         IN  factors[f] * weights[f] + WeightedSum(factors, weights, names \ {f})

(***************************************************************************)
(* risk_scoring.py: _calculate_credit_risk                                 *)
(***************************************************************************)
\* std_dev / mean of lines 106-110 in hundredths, rounded down, for a list
\* of n > 1 amounts with a positive sum, capped at 100 (min(cv, 1.0)).
\* With S the sum and Q the sum of squares, cv^2 = (n*Q - S^2) / S^2.
CvHundredths(txs) ==
    LET n == Len(txs)
        S == SumAmount(txs) \div 50
        V == n * SumSquares50(txs) - S * S
    IN  IF V >= S * S THEN 100
        ELSE CHOOSE k \in 0..99 :
                /\ k * k * S * S <= 10000 * V
                /\ (k + 1) * (k + 1) * S * S > 10000 * V

amount_consistency(txs) ==
    IF Len(txs) > 1
    THEN IF SumAmount(txs) > 0
         THEN (CvHundredths(txs) * FactorOne) \div 100
         ELSE FactorOne                          \* cv = 1, min(cv, 1.0) = 1
    ELSE FactorOne \div 2

credit_utilization(txs) ==
    Min((SumAmount(txs) * (FactorOne \div 3000)) \div 10, FactorOne)

account_age_days(customer, today) == today - customer.created_at

account_age(customer, today) ==
    Max(0, FactorOne - account_age_days(customer, today) * (FactorOne \div 365))

transaction_frequency(txs) == Min(Len(txs) * (FactorOne \div 30), FactorOne)

credit_factors(customer, txs, today) ==
    [payment_history       |-> FactorOne \div 5,
     credit_utilization    |-> credit_utilization(txs),
     account_age           |-> account_age(customer, today),
     transaction_frequency |-> transaction_frequency(txs),
     amount_consistency    |-> amount_consistency(txs)]

_calculate_credit_risk(eng, customer, txs, today) ==
    LET factors == credit_factors(customer, txs, today)
        score == WeightedSum(factors, eng.credit_weights, DOMAIN factors)
    IN  [score |-> Min(score, ScoreOne), factors |-> factors, confidence |-> 850]

(***************************************************************************)
(* risk_scoring.py: _calculate_aml_risk                                    *)
(***************************************************************************)
high_risk_merchants == {"Offshore Trading Co", "Crypto Exchange", "Casino Royale"}

IsStructuring(t) == 900 <= t.amount /\ t.amount <= 999
IsHighRiskMerchant(t) == t.merchant \in high_risk_merchants
IsOffshore(t) == t.is_offshore
IsCashEquivalent(t) == t.is_cash_equivalent
\* every multiple of 1000, the amount 0 included
IsUnusualAmount_any(t) == t.amount % 1000 = 0
IsUnusualAmount(t) == t.amount % 1000 = 0 /\ t.amount > 1000
IsNight(t) == t.hour < 6 \/ t.hour > 22

\* min(count / denominator, 1.0); a count is sum(1 for t in transactions if ...),
\* here the length of the selected sublist
CappedRatio(count, denominator) ==
    Min(count * (FactorOne \div denominator), FactorOne)

\* every factor as the share of the selected records among the records of
\* the window, in place of a count over a fixed denominator
aml_factors_per_record(txs) ==
    LET n == Max(Len(txs), 1)
    IN  [structuring_patterns  |-> CappedRatio(Len(SelectSeq(txs, IsStructuring)), n),
         high_risk_merchants   |-> CappedRatio(Len(SelectSeq(txs, IsHighRiskMerchant)), n),
         offshore_transactions |-> CappedRatio(Len(SelectSeq(txs, IsOffshore)), n),
         cash_equivalents      |-> CappedRatio(Len(SelectSeq(txs, IsCashEquivalent)), n),
         amount_frequency      |-> CappedRatio(Len(SelectSeq(txs, IsUnusualAmount)), n),
         time_patterns         |-> CappedRatio(Len(SelectSeq(txs, IsNight)), n)]

aml_factors(txs) ==
    [structuring_patterns  |-> CappedRatio(Len(SelectSeq(txs, IsStructuring)), 10),
     high_risk_merchants   |-> CappedRatio(Len(SelectSeq(txs, IsHighRiskMerchant)), 5),
     offshore_transactions |-> CappedRatio(Len(SelectSeq(txs, IsOffshore)), 3),
     cash_equivalents      |-> CappedRatio(Len(SelectSeq(txs, IsCashEquivalent)), 5),
     amount_frequency      |-> CappedRatio(Len(SelectSeq(txs, IsUnusualAmount)), 5),
     time_patterns         |-> CappedRatio(Len(SelectSeq(txs, IsNight)), 10)]

_calculate_aml_risk(eng, customer, txs) ==
    LET factors == aml_factors(txs)
        score == WeightedSum(factors, eng.aml_weights, DOMAIN factors)
    IN  [score |-> Min(score, ScoreOne), factors |-> factors, confidence |-> 900]

(***************************************************************************)
(* risk_scoring.py: _calculate_combined_risk, _determine_risk_level        *)
(***************************************************************************)
\* credit_risk["score"] * 0.4 + aml_risk["score"] * 0.6
CombinedSum(credit_score, aml_score) == (credit_score * 4 + aml_score * 6) \div 10

\* the confidence 0.88 of the seeded COMBINED records in place of the mean
_calculate_combined_risk_seed_confidence(credit_risk, aml_risk) ==
    [score |-> Min(CombinedSum(credit_risk.score, aml_risk.score), ScoreOne),
     credit_contribution |-> (credit_risk.score * 4) \div 10,
     aml_contribution    |-> (aml_risk.score * 6) \div 10,
     confidence |-> 880]

\* confidences are in thousandths: (0.85 + 0.90) / 2 = 0.875
_calculate_combined_risk(credit_risk, aml_risk) ==
    [score |-> Min(CombinedSum(credit_risk.score, aml_risk.score), ScoreOne),
     credit_contribution |-> (credit_risk.score * 4) \div 10,
     aml_contribution    |-> (aml_risk.score * 6) \div 10,
     confidence |-> (credit_risk.confidence + aml_risk.confidence) \div 2]

\* exclusive lower bounds: score > 0.8, > 0.6, > 0.4
_determine_risk_level_strict(score) ==
    IF score > (ScoreOne \div 10) * 8 THEN "CRITICAL"
    ELSE IF score > (ScoreOne \div 10) * 6 THEN "HIGH"
    ELSE IF score > (ScoreOne \div 10) * 4 THEN "MEDIUM"
    ELSE "LOW"

_determine_risk_level(score) ==
    IF score >= (ScoreOne \div 10) * 8 THEN "CRITICAL"
    ELSE IF score >= (ScoreOne \div 10) * 6 THEN "HIGH"
    ELSE IF score >= (ScoreOne \div 10) * 4 THEN "MEDIUM"
    ELSE "LOW"

\* LOW < MEDIUM < HIGH < CRITICAL
LevelRank(level) ==
    CASE level = "LOW" -> 0 [] level = "MEDIUM" -> 1
      [] level = "HIGH" -> 2 [] level = "CRITICAL" -> 3

\* lines 55-68 of calculate_risk_scores: what one run computes from the
\* customer and the windowed transactions it has read
Scores(eng, customer, txs, today) ==
    LET credit == _calculate_credit_risk(eng, customer, txs, today)
        aml == _calculate_aml_risk(eng, customer, txs)
        combined == _calculate_combined_risk(credit, aml)
    IN  [credit |-> credit, aml |-> aml, combined |-> combined,
         risk_level |-> _determine_risk_level(combined.score)]

(***************************************************************************)
(* database.py: seed_sample_data.  The state after startup.                *)
(***************************************************************************)
CustIds == {"cust_001", "cust_002"}
MissingId == "cust_999"          \* an id with no row in customers

Hundredths(n) == (ScoreOne \div 100) * n

\* created_at defaults to the time of seeding, SeedAge days before the runs
SeedCustomers(age) ==
    [id \in CustIds |->
        IF id = "cust_001"
        THEN [credit_score |-> Hundredths(30), aml_score |-> Hundredths(20),
              combined_risk_score |-> Hundredths(25), risk_level |-> "LOW",
              updated_at |-> 0, created_at |-> Today - age]
        ELSE [credit_score |-> Hundredths(70), aml_score |-> Hundredths(80),
              combined_risk_score |-> Hundredths(75), risk_level |-> "HIGH",
              updated_at |-> 0, created_at |-> Today - age]]

\* run = 0 marks the rows written by the seeding, run = r those of run r
RiskScoreRow(id, type, value, confidence, run) ==
    [customer_id |-> id, score_type |-> type, score_value |-> value,
     confidence |-> confidence, run |-> run]

SeedRiskScoresOf(cs, id) ==
    << RiskScoreRow(id, "CREDIT", cs[id].credit_score, 850, 0),
       RiskScoreRow(id, "AML", cs[id].aml_score, 900, 0),
       RiskScoreRow(id, "COMBINED", cs[id].combined_risk_score, 880, 0) >>

SeedRiskScores(cs) ==
    SeedRiskScoresOf(cs, "cust_001") \o SeedRiskScoresOf(cs, "cust_002")

\* one seeded transaction: is_offshore and is_cash_equivalent follow the
\* merchant (lines 179-180), the timestamp lies in the last 30 days
TxRow(id, amount, merchant, hour, day, offshore, cash) ==
    [customer_id |-> id, amount |-> amount, merchant |-> merchant,
     hour |-> hour, day |-> day, is_offshore |-> offshore,
     is_cash_equivalent |-> cash]

SeedTransactions(age) ==
    SetToBag({TxRow("cust_001", 950, "Offshore Trading Co", 3, Today - age, TRUE, FALSE)})

(***************************************************************************)
(* main.py: the requests POST /transactions can carry.  The handler copies *)
(* customer_id, amount, merchant, category and timestamp only, so both     *)
(* flags keep their column default False.                                  *)
(***************************************************************************)
TransactionRequests ==
    { TxRow("cust_001", 1500, "Test Merchant", 12, Today, FALSE, FALSE),
      TxRow("cust_001", 950, "Casino Royale", 23, Today, FALSE, FALSE) }

(***************************************************************************)
(* risk_scoring.py: calculate_risk_scores, one invocation per run id.      *)
(*                                                                         *)
(* Every invocation works on a Session of its own (database.py: get_db,    *)
(* SessionLocal with autoflush=False): what it reads is a private copy,    *)
(* what it assigns and adds stays in the session until db.commit().  The   *)
(* coroutine takes no lock, so invocations of several workers interleave   *)
(* at their database operations: the query of the customer, the query of   *)
(* the transactions, the commit.                                           *)
(***************************************************************************)
RunIds == 1..MaxRuns

NoRow == [credit_score |-> 0, aml_score |-> 0, combined_risk_score |-> 0,
          risk_level |-> "none", updated_at |-> 0, created_at |-> 0]

IdleRun == [pc |-> "idle", customer_id |-> "none", loaded |-> NoRow,
            computed |-> NoRow, failed_at |-> "none"]

\* Transaction.customer_id == customer_id, Transaction.timestamp >= cutoff_date
\* with cutoff_date = utcnow() - timedelta(days=90)
InWindow(t, today) == t.day >= today - 90

\* the rows of a table (a bag) as a list, as .all() returns them
RECURSIVE Rows(_)
Rows(table) ==
    IF DOMAIN table = {} THEN <<>>
    ELSE LET t == CHOOSE x \in DOMAIN table : TRUE
         IN  <<t>> \o Rows(table (-) SetToBag({t}))

\* the filter on Transaction.customer_id left out
Windowed_all_customers(table, id, today) ==
    SelectSeq(Rows(table), LAMBDA t : InWindow(t, today))

Windowed(table, id, today) ==
    SelectSeq(Rows(table), LAMBDA t : t.customer_id = id /\ InWindow(t, today))

\* db.query(Customer).filter(Customer.id == customer_id).first() and the
\* branch that follows it.  db is "session" or "none" (the default db=None,
\* on which .query raises AttributeError, re-raised by lines 76-78).
QueryCustomer(db, id, table) ==
    IF db = "none" THEN "raised"
    ELSE IF id \in DOMAIN table THEN "loaded"
    ELSE "returned"

\* the ids calculate_risk_scores is invoked with
RunTargets == {"cust_001", MissingId}

InProgress == {r \in RunIds : runs[r].pc \in {"loaded", "store"}}

\* lines 41-46.  Run ids are handed out in order of invocation.
Start(r, id) ==
    /\ runs[r].pc = "idle"
    /\ \A q \in RunIds : q < r => runs[q].pc # "idle"
    /\ Cardinality(InProgress) < MaxWorkers
    /\ LET outcome == QueryCustomer("session", id, customers)
       IN  runs' = [runs EXCEPT ![r] =
                [@ EXCEPT !.pc = outcome, !.customer_id = id,
                          !.loaded = IF outcome = "loaded" THEN customers[id] ELSE NoRow]]
    /\ UNCHANGED <<engine, customers, transactions, risk_scores, clock, http, requests, probe, services>>

\* lines 65-69: the attributes assigned on the loaded Customer object
AssignedRow(loaded, s, now) ==
    [loaded EXCEPT !.credit_score = s.credit.score,
                   !.aml_score = s.aml.score,
                   !.combined_risk_score = s.combined.score,
                   !.risk_level = s.risk_level,
                   !.updated_at = now]

\* the confidence entries of the three dicts handed to _store_risk_scores
\* (line 72), which the session holds in the RiskScore objects it was given
Confidences(s) ==
    [credit_confidence   |-> s.credit.confidence,
     aml_confidence      |-> s.aml.confidence,
     combined_confidence |-> s.combined.confidence]

\* what the session of a run holds before its commit: the Customer object
\* with its assigned attributes, and the confidences of the three records
Staged(row, confidences) ==
    [credit_score |-> row.credit_score, aml_score |-> row.aml_score,
     combined_risk_score |-> row.combined_risk_score,
     risk_level |-> row.risk_level, updated_at |-> row.updated_at,
     created_at |-> row.created_at,
     credit_confidence |-> confidences.credit_confidence,
     aml_confidence |-> confidences.aml_confidence,
     combined_confidence |-> confidences.combined_confidence]

\* lines 48-69 and 203-236: read the window, compute, assign the customer's
\* attributes and add the three records to the session
Compute(r) ==
    /\ runs[r].pc = "loaded"
    /\ LET txs == Windowed(transactions, runs[r].customer_id, Today)
           s == Scores(engine, runs[r].loaded, txs, Today)
       IN  runs' = [runs EXCEPT ![r] =
                [@ EXCEPT !.pc = "store",
                          !.computed = Staged(AssignedRow(runs[r].loaded, s, clock + 1),
                                              Confidences(s))]]
    /\ clock' = clock + 1
    /\ UNCHANGED <<engine, customers, transactions, risk_scores, http, requests, probe, services>>

ScoreFields == {"credit_score", "aml_score", "combined_risk_score",
                "risk_level", "updated_at"}

\* The UPDATE the session's flush emits for the Customer object: the ORM
\* compares each assigned attribute with the value it loaded and writes the
\* columns that differ, leaving every other column of the row as it is.
FlushedRow(row, loaded, assigned) ==
    [f \in DOMAIN row |->
        IF f \in ScoreFields /\ assigned[f] # loaded[f] THEN assigned[f] ELSE row[f]]

\* lines 203-236: the three RiskScore objects of a run
NewRiskScores(id, c, r) ==
    << RiskScoreRow(id, "CREDIT", c.credit_score, c.credit_confidence, r),
       RiskScoreRow(id, "AML", c.aml_score, c.aml_confidence, r),
       RiskScoreRow(id, "COMBINED", c.combined_risk_score, c.combined_confidence, r) >>

\* the invocation has ended: its session, and what it held, is gone
Finished(run, pc, failed_at) ==
    [run EXCEPT !.pc = pc, !.failed_at = failed_at,
                !.loaded = NoRow, !.computed = NoRow]

\* an UPDATE without its WHERE clause: every row takes the run's values
CommittedCustomers_every_row(table, run) ==
    [id \in DOMAIN table |-> FlushedRow(table[id], run.loaded, run.computed)]

\* line 238, db.commit() succeeding: one database transaction
CommittedCustomers(table, run) ==
    [table EXCEPT ![run.customer_id] =
        FlushedRow(table[run.customer_id], run.loaded, run.computed)]

\* the customer's earlier records replaced by the new ones
CommittedRiskScores_latest_only(table, run, r) ==
    SelectSeq(table, LAMBDA row : row.customer_id # run.customer_id)
        \o NewRiskScores(run.customer_id, run.computed, r)

CommittedRiskScores(table, run, r) ==
    table \o NewRiskScores(run.customer_id, run.computed, r)

CommitOk(r) ==
    /\ runs[r].pc = "store"
    /\ customers' = CommittedCustomers(customers, runs[r])
    /\ risk_scores' = CommittedRiskScores(risk_scores, runs[r], r)
    /\ runs' = [runs EXCEPT ![r] = Finished(@, "done", "none")]
    /\ UNCHANGED <<engine, transactions, clock, http, requests, probe, services>>

\* lines 240-243 and 76-78: the flush of one of the statements or the commit
\* raises; db.rollback() discards whatever the transaction had written
RolledBackCustomers(table, run) == table

\* no rollback: the first INSERT of the failed transaction stays
RolledBackRiskScores_partial(table, run, r) ==
    table \o SubSeq(NewRiskScores(run.customer_id, run.computed, r), 1, 1)

RolledBackRiskScores(table, run, r) == table

CommitFail(r) ==
    /\ runs[r].pc = "store"
    /\ customers' = RolledBackCustomers(customers, runs[r])
    /\ risk_scores' = RolledBackRiskScores(risk_scores, runs[r], r)
    /\ runs' = [runs EXCEPT ![r] = Finished(@, "raised", "store")]
    /\ UNCHANGED <<engine, transactions, clock, http, requests, probe, services>>

(***************************************************************************)
(* main.py: create_transaction                                             *)
(***************************************************************************)
\* lines 149-170.  The transaction is committed, then the engine is called
\* without a session (line 162), so the call raises at its first query and
\* the handler answers 500; enrich_customer and the success response are
\* never reached.
create_transaction(t) ==
    /\ requests < MaxRequests
    /\ requests' = requests + 1
    /\ transactions' = transactions (+) SetToBag({t})
    /\ LET outcome == QueryCustomer("none", t.customer_id, customers)
       IN  http' = [status |-> IF outcome = "raised" THEN 500 ELSE 200,
                    customer_id |-> t.customer_id, run |-> outcome]
    /\ UNCHANGED <<engine, customers, risk_scores, runs, clock, probe, services>>

(***************************************************************************)
(* mcp_agents.py: DataAgent.generate_customer_data and clear_all_data,     *)
(* reached through MCPAgentOrchestrator by POST /data/generate and         *)
(* DELETE /data/clear (main.py).  Both work on the agent's in-memory list; *)
(* neither opens a database session.  Scores are in hundredths here, as    *)
(* round(..., 2) leaves them.                                              *)
(***************************************************************************)
RiskLevels == {"LOW", "MEDIUM", "HIGH", "CRITICAL"}

\* lines 351-357: int(num_customers * 0.4), ... (int truncates)
risk_distribution(num_customers) ==
    [l \in RiskLevels |->
        CASE l = "LOW" -> (num_customers * 4) \div 10
          [] l = "MEDIUM" -> (num_customers * 3) \div 10
          [] l = "HIGH" -> (num_customers * 2) \div 10
          [] l = "CRITICAL" -> num_customers \div 10]

\* lines 379-390: the draws of random.uniform for a level, here the two
\* ends of each range, as [credit, aml] in hundredths
UniformDraws(risk_level) ==
    CASE risk_level = "LOW" -> {<<10, 10>>, <<40, 30>>}
      [] risk_level = "MEDIUM" -> {<<30, 30>>, <<60, 50>>}
      [] risk_level = "HIGH" -> {<<60, 60>>, <<80, 80>>}
      [] risk_level = "CRITICAL" -> {<<80, 80>>, <<95, 95>>}

\* lines 392-421: one generated customer
GeneratedCustomer(risk_level, draw) ==
    [risk_level |-> risk_level, credit_score |-> draw[1], aml_score |-> draw[2],
     combined_risk_score |-> (draw[1] + draw[2]) \div 2]

\* the customers one pass of the loop of lines 370-423 can produce:
\* random.choices draws a level of positive weight
GeneratedCustomers(distribution) ==
    UNION { {GeneratedCustomer(l, d) : d \in UniformDraws(l)} :
                l \in {x \in RiskLevels : distribution[x] > 0} }

\* lines 341-437.  With every weight 0 (num_customers < 3) random.choices
\* raises ValueError, caught by line 435: the reply is {"error": ...} and
\* the stored list stays as it was.
generate_customer_data(num_customers) ==
    /\ LET distribution == risk_distribution(num_customers)
           pool == GeneratedCustomers(distribution)
       IN  IF pool = {}
           THEN /\ response' = [op |-> "generate", num_customers |-> num_customers,
                                error |-> TRUE, total_generated |-> 0]
                /\ UNCHANGED generated_customers
           ELSE \E list \in [1..num_customers -> pool] :
                    /\ generated_customers' = list
                    /\ response' = [op |-> "generate", num_customers |-> num_customers,
                                    error |-> FALSE, total_generated |-> Len(list)]
    /\ UNCHANGED <<engine, customers, transactions, risk_scores, runs, clock, http,
                   requests, probe>>

\* lines 439-454 (main.py 229-239): the stored list is emptied; the tables
\* of the database are not touched
clear_all_data ==
    /\ generated_customers' = <<>>
    /\ response' = [op |-> "clear", error |-> FALSE]
    /\ UNCHANGED <<engine, customers, transactions, risk_scores, runs, clock, http,
                   requests, probe>>

(***************************************************************************)
(* mcp_agents.py: DataAgent.get_all_customers, get_risky_customers and     *)
(* get_dashboard_stats, reached by GET /customers, GET /customers/risky    *)
(* and GET /dashboard/stats.  Each reads the stored list when it is not    *)
(* empty and a hard-coded list otherwise.  A customer is its scores (in    *)
(* hundredths) and its risk_level; search is always None here.             *)
(***************************************************************************)
\* lines 116-180: the fallback list of get_all_customers
FallbackCustomers ==
    << [risk_level |-> "LOW", credit_score |-> 30, aml_score |-> 20,
        combined_risk_score |-> 25],
       [risk_level |-> "HIGH", credit_score |-> 70, aml_score |-> 80,
        combined_risk_score |-> 75],
       [risk_level |-> "HIGH", credit_score |-> 90, aml_score |-> 60,
        combined_risk_score |-> 75],
       [risk_level |-> "LOW", credit_score |-> 40, aml_score |-> 30,
        combined_risk_score |-> 35],
       [risk_level |-> "CRITICAL", credit_score |-> 80, aml_score |-> 90,
        combined_risk_score |-> 85] >>

\* lines 219-262: the fallback list of get_risky_customers
FallbackRiskyCustomers ==
    << [risk_level |-> "CRITICAL", credit_score |-> 80, aml_score |-> 90,
        combined_risk_score |-> 85],
       [risk_level |-> "HIGH", credit_score |-> 70, aml_score |-> 80,
        combined_risk_score |-> 75],
       [risk_level |-> "HIGH", credit_score |-> 90, aml_score |-> 60,
        combined_risk_score |-> 75] >>

\* list[start:end] for 0 <= start and 0 <= end
Slice(list, start, end) == SubSeq(list, start + 1, Min(end, Len(list)))

\* lines 106-200
AllCustomers(stored, limit, offset, risk_level) ==
    LET all_customers == IF stored # <<>> THEN stored ELSE FallbackCustomers
        filtered_customers ==
            IF risk_level = "none" THEN all_customers
            ELSE SelectSeq(all_customers, LAMBDA c : c.risk_level = risk_level)
    IN  Slice(filtered_customers, offset, offset + limit)

get_all_customers(limit, offset, risk_level) ==
    /\ response' = [op |-> "get_all_customers", limit |-> limit, offset |-> offset,
                    risk_level |-> risk_level,
                    customers |-> AllCustomers(generated_customers, limit, offset,
                                               risk_level)]
    /\ UNCHANGED <<engine, customers, transactions, risk_scores, runs, clock, http,
                   requests, probe, generated_customers>>

\* the list as it is, the sort left out
SortedByRisk_not_sorted(list) == list

\* sorted(list, key=lambda x: x["combined_risk_score"], reverse=True): a
\* stable sort, equal scores keep the order they had
RECURSIVE SortedByRisk(_)
SortedByRisk(list) ==
    IF list = <<>> THEN <<>>
    ELSE LET c == list[Len(list)]
             front == SortedByRisk(SubSeq(list, 1, Len(list) - 1))
             k == Cardinality({i \in 1..Len(front) :
                                 front[i].combined_risk_score >= c.combined_risk_score})
         IN  SubSeq(front, 1, k) \o <<c>> \o SubSeq(front, k + 1, Len(front))

\* lines 202-274: both branches filter, sort and cut
RiskyCustomers(stored, limit, min_risk_score) ==
    LET source == IF stored # <<>> THEN stored ELSE FallbackRiskyCustomers
        risky_customers ==
            SelectSeq(source, LAMBDA c : c.combined_risk_score >= min_risk_score)
    IN  Slice(SortedByRisk(risky_customers), 0, limit)

get_risky_customers(limit, min_risk_score) ==
    /\ response' = [op |-> "get_risky_customers", limit |-> limit,
                    min_risk_score |-> min_risk_score,
                    customers |-> RiskyCustomers(generated_customers, limit,
                                                 min_risk_score)]
    /\ UNCHANGED <<engine, customers, transactions, risk_scores, runs, clock, http,
                   requests, probe, generated_customers>>

\* lines 315-335: the fallback statistics
FallbackStats ==
    [total_customers |-> 1000, high_risk_customers |-> 45,
     critical_risk_customers |-> 8,
     risk_score_distribution |->
        [l \in RiskLevels |->
            CASE l = "LOW" -> 750 [] l = "MEDIUM" -> 187
              [] l = "HIGH" -> 45 [] l = "CRITICAL" -> 8]]

CountLevel(stored, level) ==
    Len(SelectSeq(stored, LAMBDA c : c.risk_level = level))

\* lines 276-339
DashboardStats(stored) ==
    IF stored # <<>>
    THEN [total_customers |-> Len(stored),
          high_risk_customers |-> CountLevel(stored, "HIGH"),
          critical_risk_customers |-> CountLevel(stored, "CRITICAL"),
          risk_score_distribution |-> [l \in RiskLevels |-> CountLevel(stored, l)]]
    ELSE FallbackStats

get_dashboard_stats ==
    /\ response' = [op |-> "get_dashboard_stats",
                    stats |-> DashboardStats(generated_customers)]
    /\ UNCHANGED <<engine, customers, transactions, risk_scores, runs, clock, http,
                   requests, probe, generated_customers>>

(***************************************************************************)
(* osint_enrichment.py: enrich_customer, reached by POST                   *)
(* /osint/enrich/{customer_id} (main.py 196-206).  _get_customer_data      *)
(* returns the same mock record for every id, the five checks compute      *)
(* their signal from it, _store_osint_signals only logs.                   *)
(***************************************************************************)
\* signal values in hundredths: the mock name and e-mail give 0 everywhere
\* but DOMAIN_RISK (0.2: "email.com" is shorter than 10) and MERCHANT_RISK
\* (0.6 for cust_002 and cust_005)
OsintSignals(customer_id) ==
    << [signal_type |-> "ADVERSE_MEDIA", signal_value |-> 0],
       [signal_type |-> "DOMAIN_RISK", signal_value |-> 20],
       [signal_type |-> "MERCHANT_RISK",
        signal_value |-> IF customer_id \in {"cust_002", "cust_005"} THEN 60 ELSE 0],
       [signal_type |-> "SANCTIONS_CHECK", signal_value |-> 0],
       [signal_type |-> "PEP_STATUS", signal_value |-> 0] >>

\* how one check coroutine ends: "ok" returns its signal; "caught" raises
\* inside its try block, and its except branch returns a dict with the
\* signal_type, signal_value 0.0 and the error text (lines 117-119, 157-159,
\* 191-193, 226-228, 261-263); "escaped" raises past the coroutine (from
\* its except branch), which asyncio.gather(return_exceptions=True) hands
\* back as the exception object
CheckOutcomes == {"ok", "caught", "escaped"}

AllOk == [i \in 1..5 |-> "ok"]

\* line 46: the results of the five tasks, in the order of lines 38-44
GatherResults(customer_id, outcomes) ==
    [i \in 1..5 |->
        CASE outcomes[i] = "ok" -> OsintSignals(customer_id)[i]
          [] outcomes[i] = "caught" ->
                [signal_type |-> OsintSignals(customer_id)[i].signal_type,
                 signal_value |-> 0, error |-> TRUE]
          [] outcomes[i] = "escaped" -> [exception |-> TRUE]]

\* lines 48-52: isinstance(result, dict) and result.get("signal_type")
CollectedSignals(results) ==
    SelectSeq(results, LAMBDA result : "signal_type" \in DOMAIN result)

\* lines 25-62.  lookup is how _get_customer_data ends: "raised" leaves
\* the try block for the except branch of lines 60-62, which returns [].
enrich_customer(customer_id, lookup, outcomes) ==
    /\ response' = [op |-> "enrich", customer_id |-> customer_id,
                    lookup |-> lookup, outcomes |-> outcomes,
                    signals |-> IF lookup = "raised" THEN <<>>
                                ELSE CollectedSignals(
                                         GatherResults(customer_id, outcomes))]
    /\ UNCHANGED <<engine, customers, transactions, risk_scores, runs, clock, http,
                   requests, probe, generated_customers>>

(***************************************************************************)
(* Direct evaluations of the engine's functions on enumerated inputs.      *)
(***************************************************************************)
SeqsUpTo(S, n) == UNION {[1..k -> S] : k \in 0..n}

\* account ages in days; a negative age is a created_at later than now
ProbeAges == {-1780, -1, 0, 100, 365, 400}

ProbeTxMenu ==
    { TxRow("cust_001", 950, "Amazon", 12, Today, FALSE, FALSE),
      TxRow("cust_001", 950, "Crypto Exchange", 12, Today, FALSE, TRUE),
      TxRow("cust_001", 5000, "Amazon", 23, Today, TRUE, FALSE),
      TxRow("cust_001", 1500, "Test Merchant", 12, Today, FALSE, FALSE),
      TxRow("cust_001", 0, "Amazon", 3, Today, FALSE, FALSE),
      TxRow("cust_001", -30000, "Amazon", 12, Today, FALSE, FALSE) }

\* lists longer than a denominator: 4 offshore records (over 3) and 6
\* records of a denylisted cash-equivalent merchant (over 5)
ProbeLongLists ==
    { [i \in 1..4 |-> TxRow("cust_001", 5000, "Amazon", 23, Today, TRUE, FALSE)],
      [i \in 1..6 |-> TxRow("cust_001", 950, "Crypto Exchange", 12, Today, FALSE, TRUE)] }

\* the days on which a run is made again
ProbeRetryDays == {Today, Today + 1, Today + 400}

\* records that a run for cust_001 on day Today must not read (another
\* entity's, or older than the cutoff) and one on the cutoff day itself
ProbeOutsideRows ==
    { TxRow("cust_002", 950, "Casino Royale", 23, Today, TRUE, TRUE),
      TxRow("cust_001", 950, "Casino Royale", 23, Today - 91, TRUE, TRUE),
      TxRow("cust_002", 5000, "Amazon", 3, Today - 91, FALSE, FALSE) }

ProbeCutoffRow == TxRow("cust_001", 950, "Casino Royale", 23, Today - 90, TRUE, TRUE)

ScoreGrid ==
    { Hundredths(n) : n \in {-20, 0, 20, 40, 50, 60, 80, 100} }
    \cup { Hundredths(n) - 1 : n \in {40, 60, 80} }

NoOutput == [none |-> TRUE]

ProbeInputs ==
    { [kind |-> "run", created_at |-> Today - age, txs |-> txs] :
        age \in ProbeAges,
        txs \in SeqsUpTo(ProbeTxMenu, MaxProbeTx) \cup ProbeLongLists }
    \cup { [kind |-> "retry", created_at |-> Today - age, txs |-> txs, day |-> d] :
        age \in ProbeAges, txs \in SeqsUpTo(ProbeTxMenu, 1), d \in ProbeRetryDays }
    \cup { [kind |-> "window", table |-> SetToBag(base), extra |-> x] :
        base \in {b \in SUBSET ProbeTxMenu : Cardinality(b) <= 2},
        x \in ProbeOutsideRows \cup {ProbeCutoffRow} }
    \cup UNION { { [kind |-> "extend", txs |-> txs, extra |-> x, at |-> k] :
                     x \in ProbeTxMenu, k \in {0, Len(txs)} } :
                 txs \in SeqsUpTo(ProbeTxMenu, MaxProbeTx - 1) \cup ProbeLongLists }
    \cup { [kind |-> "combine", credit |-> c, aml |-> a] :
        c \in ScoreGrid, a \in ScoreGrid }
    \cup { [kind |-> "classify", s1 |-> s1, s2 |-> s2] :
        s1 \in ScoreGrid, s2 \in ScoreGrid }

\* lines 55-68 applied to a customer and a windowed list
EvaluateRun ==
    /\ probe.pc = "input" /\ probe.in.kind = "run"
    /\ probe' = [probe EXCEPT !.pc = "done",
                   !.out = Scores(engine, [created_at |-> probe.in.created_at],
                                  probe.in.txs, Today)]
    /\ UNCHANGED <<engine, customers, transactions, risk_scores, runs, clock, http, requests, services>>

\* lines 55-68 applied twice to the same customer and the same windowed
\* list: on day Today and again on a later day (utcnow() of line 97)
EvaluateRetry ==
    /\ probe.pc = "input" /\ probe.in.kind = "retry"
    /\ probe' = [probe EXCEPT !.pc = "done",
                   !.out = [first |-> Scores(engine, [created_at |-> probe.in.created_at],
                                             probe.in.txs, Today),
                            second |-> Scores(engine, [created_at |-> probe.in.created_at],
                                              probe.in.txs, probe.in.day)]]
    /\ UNCHANGED <<engine, customers, transactions, risk_scores, runs, clock, http, requests, services>>

\* lines 48-68 on a transactions table, with and without one more row in it
EvaluateWindow ==
    /\ probe.pc = "input" /\ probe.in.kind = "window"
    /\ LET table == probe.in.table
           more == probe.in.table (+) SetToBag({probe.in.extra})
           customer == [created_at |-> Today - SeedAge]
       IN  probe' = [probe EXCEPT !.pc = "done",
                       !.out = [without |-> Scores(engine, customer,
                                                   Windowed(table, "cust_001", Today), Today),
                                with |-> Scores(engine, customer,
                                                Windowed(more, "cust_001", Today), Today)]]
    /\ UNCHANGED <<engine, customers, transactions, risk_scores, runs, clock, http, requests, services>>

\* the list with one more record after its first k records
InsertAt(txs, k, x) == SubSeq(txs, 1, k) \o <<x>> \o SubSeq(txs, k + 1, Len(txs))

\* lines 55-68 on a windowed list and on the same list with one more record
EvaluateExtend ==
    /\ probe.pc = "input" /\ probe.in.kind = "extend"
    /\ LET customer == [created_at |-> Today - SeedAge]
           more == InsertAt(probe.in.txs, probe.in.at, probe.in.extra)
       IN  probe' = [probe EXCEPT !.pc = "done",
                       !.out = [without |-> Scores(engine, customer, probe.in.txs, Today),
                                with |-> Scores(engine, customer, more, Today)]]
    /\ UNCHANGED <<engine, customers, transactions, risk_scores, runs, clock, http, requests, services>>

EvaluateCombine ==
    /\ probe.pc = "input" /\ probe.in.kind = "combine"
    /\ probe' = [probe EXCEPT !.pc = "done",
                   !.out = _calculate_combined_risk(
                               [score |-> probe.in.credit, confidence |-> 850],
                               [score |-> probe.in.aml, confidence |-> 900])]
    /\ UNCHANGED <<engine, customers, transactions, risk_scores, runs, clock, http, requests, services>>

EvaluateClassify ==
    /\ probe.pc = "input" /\ probe.in.kind = "classify"
    /\ probe' = [probe EXCEPT !.pc = "done",
                   !.out = [l1 |-> _determine_risk_level(probe.in.s1),
                            l2 |-> _determine_risk_level(probe.in.s2)]]
    /\ UNCHANGED <<engine, customers, transactions, risk_scores, runs, clock, http, requests, services>>

(***************************************************************************)
(* Specifications.                                                         *)
(***************************************************************************)
NoReply == [op |-> "none"]

NoResponse == [status |-> 0, customer_id |-> "none", run |-> "none"]

\* the database after startup, the engine constructed, nothing requested yet
Init ==
    /\ engine = EngineInit
    /\ customers = SeedCustomers(SeedAge)
    /\ transactions = SeedTransactions(SeedAge)
    /\ risk_scores = SeedRiskScores(SeedCustomers(SeedAge))
    /\ runs = [r \in RunIds |-> IdleRun]
    /\ clock = 0
    /\ http = NoResponse
    /\ requests = 0
    /\ probe = [pc |-> "off", in |-> NoOutput, out |-> NoOutput]
    /\ generated_customers = <<>>
    /\ response = NoReply

Next ==
    \/ \E r \in RunIds, id \in RunTargets : Start(r, id)
    \/ \E r \in RunIds : Compute(r)
    \/ \E r \in RunIds : CommitOk(r)
    \/ \E r \in RunIds : CommitFail(r)
    \/ \E t \in TransactionRequests : create_transaction(t)

Spec == Init /\ [][Next]_vars

\* every operation of the system on one database: scoring runs for
\* cust_001 (completed and failed, started one at a time), POST
\* /transactions, POST /data/generate, DELETE /data/clear and POST
\* /osint/enrich
GenerateSizes == {1, 3}

NextOperations ==
    \/ \E r \in RunIds : InProgress = {} /\ Start(r, "cust_001")
    \/ \E r \in RunIds : Compute(r)
    \/ \E r \in RunIds : CommitOk(r)
    \/ \E r \in RunIds : CommitFail(r)
    \/ create_transaction(TxRow("cust_001", 950, "Casino Royale", 23, Today, FALSE, FALSE))
    \/ \E n \in GenerateSizes : generate_customer_data(n)
    \/ clear_all_data
    \/ \E id \in CustIds : enrich_customer(id, "ok", AllOk)

SpecOperations == Init /\ [][NextOperations]_vars

\* scoring runs for two entities in any interleaving, while transactions of
\* cust_002 are ingested
NextEntities ==
    \/ \E r \in RunIds, id \in CustIds : Start(r, id)
    \/ \E r \in RunIds : Compute(r)
    \/ \E r \in RunIds : CommitOk(r)
    \/ \E r \in RunIds : CommitFail(r)
    \/ create_transaction(TxRow("cust_002", 950, "Casino Royale", 23, Today, FALSE, FALSE))

SpecEntities == Init /\ [][NextEntities]_vars

\* the data agent alone: the requests that reach the in-memory list of
\* generated customers, in any order
AgentSizes == {1, 2, 4}
AgentLimits == {0, 1, 2, 4, 5}
AgentOffsets == {0, 1}
AgentMinScores == {0, 35, 75}

NextAgent ==
    \/ \E n \in AgentSizes : generate_customer_data(n)
    \/ clear_all_data
    \/ \E limit \in AgentLimits \ {0}, offset \in AgentOffsets,
          risk_level \in {"none", "MEDIUM"} :
            get_all_customers(limit, offset, risk_level)
    \/ \E limit \in AgentLimits, m \in AgentMinScores : get_risky_customers(limit, m)
    \/ get_dashboard_stats

SpecAgent == Init /\ [][NextAgent]_vars

\* the enrichment service alone, with every way its checks can end
NextOsint ==
    \/ \E id \in CustIds, outcomes \in [1..5 -> CheckOutcomes] :
          enrich_customer(id, "ok", outcomes)
    \/ \E id \in CustIds : enrich_customer(id, "raised", AllOk)

SpecOsint == Init /\ [][NextOsint]_vars

\* one direct evaluation of the engine on an enumerated input
InitEngine ==
    /\ engine = EngineInit
    /\ customers = SeedCustomers(0)
    /\ transactions = EmptyBag
    /\ risk_scores = SeedRiskScores(SeedCustomers(0))
    /\ runs = [r \in RunIds |-> IdleRun]
    /\ clock = 0
    /\ http = NoResponse
    /\ requests = 0
    /\ \E i \in ProbeInputs : probe = [pc |-> "input", in |-> i, out |-> NoOutput]
    /\ generated_customers = <<>>
    /\ response = NoReply

NextEngine ==
    \/ EvaluateRun
    \/ EvaluateRetry
    \/ EvaluateWindow
    \/ EvaluateExtend
    \/ EvaluateCombine
    \/ EvaluateClassify

SpecEngine == InitEngine /\ [][NextEngine]_vars

(***************************************************************************)
(* Properties.                                                             *)
(***************************************************************************)
InUnit(v, one) == 0 <= v /\ v <= one

\* the rows of risk_scores written by run q (0: the seeding) for customer id
RowsOf(q, id) ==
    SelectSeq(risk_scores, LAMBDA row : row.run = q /\ row.customer_id = id)

RowTypes(rows) == {rows[i].score_type : i \in 1..Len(rows)}

ValueOf(rows, type) ==
    LET i == CHOOSE j \in 1..Len(rows) : rows[j].score_type = type
    IN  rows[i].score_value

ProbeDone(kind) == probe.pc = "done" /\ probe.in.kind = kind

\* C1: for every entity and every windowed list (empty, all-zero, negative
\* amounts, created_at later than now) every credit factor, every AML
\* factor, the credit score, the AML score and the combined score lies in
\* [0, 1].
C1_AllValuesInUnitInterval ==
    ProbeDone("run") =>
        /\ \A f \in CreditFactors : InUnit(probe.out.credit.factors[f], FactorOne)
        /\ \A f \in AmlFactors : InUnit(probe.out.aml.factors[f], FactorOne)
        /\ InUnit(probe.out.credit.score, ScoreOne)
        /\ InUnit(probe.out.aml.score, ScoreOne)
        /\ InUnit(probe.out.combined.score, ScoreOne)

\* C2: a run whose persistence fails is rolled back: the step in which the
\* store fails persists no record of the run, leaves every customer row as
\* it was and ends the run in a raised failure; no failed run has a record.
C2_FailedStoreChangesNothing ==
    [][\A r \in RunIds :
          /\ (runs[r].pc = "store" /\ runs'[r].pc \notin {"store", "done"}) =>
                /\ customers' = customers
                /\ risk_scores' = risk_scores
                /\ runs'[r].pc = "raised"
          /\ runs'[r].pc = "raised" =>
                \A id \in CustIds : RowsOf(r, id)' = <<>>]_vars

C2_Witness ==
    \E r \in RunIds :
        /\ runs[r].pc = "raised" /\ runs[r].failed_at = "store"
        /\ \E q \in RunIds : runs[q].pc = "done"

\* C3: a run for an entity id that does not exist returns an EntityNotFound
\* failure to the caller and writes no record.
C3_MissingEntityIsAFailure ==
    \A r \in RunIds :
        (runs[r].pc # "idle" /\ runs[r].customer_id \notin DOMAIN customers) =>
            /\ runs[r].pc = "raised"
            /\ RowsOf(r, runs[r].customer_id) = <<>>

\* C4: every completed run adds exactly three records (CREDIT, AML,
\* COMBINED) in the same atomic step as the update of the entity's five
\* current fields: after the step the entity holds the run's credit, AML and
\* combined score, its band and its updated_at, and no other step touches
\* the records or the entity.
C4_RunPersistsAsAUnit ==
    [][/\ \A r \in RunIds :
            (runs[r].pc = "store" /\ runs'[r].pc = "done") =>
                LET id == runs[r].customer_id
                    c == runs[r].computed
                IN  /\ risk_scores' = risk_scores \o RowsOf(r, id)'
                    /\ Len(RowsOf(r, id)') = 3
                    /\ RowTypes(RowsOf(r, id)') = {"CREDIT", "AML", "COMBINED"}
                    /\ customers'[id].credit_score = ValueOf(RowsOf(r, id)', "CREDIT")
                    /\ customers'[id].aml_score = ValueOf(RowsOf(r, id)', "AML")
                    /\ customers'[id].combined_risk_score
                          = ValueOf(RowsOf(r, id)', "COMBINED")
                    /\ customers'[id].risk_level = c.risk_level
                    /\ customers'[id].updated_at = c.updated_at
       /\ (\A r \in RunIds : ~(runs[r].pc = "store" /\ runs'[r].pc = "done")) =>
            (risk_scores' = risk_scores /\ customers' = customers)]_vars

\* C5: for any number of overlapping runs on the same entity, in every
\* persisted state the entity's combined_risk_score, credit_score and
\* aml_score are those of one and the same run (or of the seeding): never
\* one run's credit score with another run's AML score.
C5_ScoresOfOneRun ==
    \A id \in CustIds :
        \E q \in 0..MaxRuns :
            /\ RowTypes(RowsOf(q, id)) = {"CREDIT", "AML", "COMBINED"}
            /\ customers[id].credit_score = ValueOf(RowsOf(q, id), "CREDIT")
            /\ customers[id].aml_score = ValueOf(RowsOf(q, id), "AML")
            /\ customers[id].combined_risk_score = ValueOf(RowsOf(q, id), "COMBINED")

\* C6: for every pair (credit_score, aml_score) the combined score is
\* clamp(0.4 * credit_score + 0.6 * aml_score, 0, 1).
C6_CombinedIsClampedSum ==
    /\ ProbeDone("combine") =>
          probe.out.score = Clamp(CombinedSum(probe.in.credit, probe.in.aml), ScoreOne)
    /\ ProbeDone("run") =>
          probe.out.combined.score =
              Clamp(CombinedSum(probe.out.credit.score, probe.out.aml.score), ScoreOne)

\* C7: the band is monotonic in the score (LOW < MEDIUM < HIGH < CRITICAL)
\* with inclusive lower bounds: 0.8 is CRITICAL, 0.6 is HIGH, 0.4 is MEDIUM
\* and every score below 0.4 is LOW.
C7_BandsMonotonicInclusive ==
    ProbeDone("classify") =>
        /\ probe.in.s1 <= probe.in.s2 =>
              LevelRank(probe.out.l1) <= LevelRank(probe.out.l2)
        /\ probe.in.s1 = Hundredths(80) => probe.out.l1 = "CRITICAL"
        /\ probe.in.s1 = Hundredths(60) => probe.out.l1 = "HIGH"
        /\ probe.in.s1 = Hundredths(40) => probe.out.l1 = "MEDIUM"
        /\ probe.in.s1 < Hundredths(40) => probe.out.l1 = "LOW"

C7_Witness ==
    /\ ProbeDone("classify")
    /\ probe.in.s1 = Hundredths(80) - 1 /\ probe.in.s2 = Hundredths(80)
    /\ probe.out.l1 = "HIGH" /\ probe.out.l2 = "CRITICAL"

SumOfWeights(weights) ==
    WeightedSum([f \in DOMAIN weights |-> 1], weights, DOMAIN weights)

\* C9: the credit and the AML weight table of the engine each sum to 1.0
\* (100 hundredths), and no operation changes either table after
\* construction.
C9_WeightTablesSumToOneAndStay ==
    /\ SumOfWeights(engine.credit_weights) = 100
    /\ SumOfWeights(engine.aml_weights) = 100
    /\ [][engine' = engine]_vars

C9_Witness ==
    /\ \E r \in RunIds : runs[r].pc = "done"
    /\ DOMAIN engine.credit_weights = CreditFactors
    /\ DOMAIN engine.aml_weights = AmlFactors
    /\ SumOfWeights(engine.credit_weights) = 100

\* C10: with no activity record in the window, credit_utilization is 0, all
\* six AML factors and the AML score are 0, and the combined score is
\* classified LOW, whatever the account age.
C10_EmptyWindowIsLow ==
    (ProbeDone("run") /\ probe.in.txs = <<>>) =>
        /\ probe.out.credit.factors.credit_utilization = 0
        /\ \A f \in AmlFactors : probe.out.aml.factors[f] = 0
        /\ probe.out.aml.score = 0
        /\ probe.out.risk_level = "LOW"

\* the scenario of three records: 950, 950 at a denylisted merchant, 5000 offshore
C11_Scenario ==
    << TxRow("cust_001", 950, "Amazon", 12, Today, FALSE, FALSE),
       TxRow("cust_001", 950, "Crypto Exchange", 12, Today, FALSE, TRUE),
       TxRow("cust_001", 5000, "Amazon", 23, Today, TRUE, FALSE) >>

\* C11: for every list of windowed records each AML factor is
\* min(count / denominator, 1): structuring_patterns counts 900 <= amount <=
\* 999 over 10, high_risk_merchants the denylisted merchants over 5,
\* offshore_transactions is_offshore over 3, cash_equivalents
\* is_cash_equivalent over 5, amount_frequency (amount mod 1000 = 0 and
\* amount > 1000) over 5, time_patterns (hour < 6 or hour > 22) over 10.
\* The records 950, 950, 5000 with one denylisted merchant and one offshore
\* flag give 0.2, 0.2 and 1/3.
C11_AmlFactorsAreCappedRatios ==
    ProbeDone("run") =>
        LET txs == probe.in.txs
            f == probe.out.aml.factors
            Ratio(count, den) ==
                IF count >= den THEN FactorOne ELSE (count * FactorOne) \div den
            Denylist == {"Offshore Trading Co", "Crypto Exchange", "Casino Royale"}
        IN  /\ f.structuring_patterns = Ratio(Cardinality(
                  {i \in DOMAIN txs : txs[i].amount >= 900 /\ txs[i].amount <= 999}), 10)
            /\ f.high_risk_merchants = Ratio(Cardinality(
                  {i \in DOMAIN txs : txs[i].merchant \in Denylist}), 5)
            /\ f.offshore_transactions = Ratio(Cardinality(
                  {i \in DOMAIN txs : txs[i].is_offshore}), 3)
            /\ f.cash_equivalents = Ratio(Cardinality(
                  {i \in DOMAIN txs : txs[i].is_cash_equivalent}), 5)
            /\ f.amount_frequency = Ratio(Cardinality(
                  {i \in DOMAIN txs : txs[i].amount % 1000 = 0 /\ txs[i].amount > 1000}), 5)
            /\ f.time_patterns = Ratio(Cardinality(
                  {i \in DOMAIN txs : txs[i].hour < 6 \/ txs[i].hour > 22}), 10)
            /\ txs = C11_Scenario =>
                  /\ f.structuring_patterns = FactorOne \div 5
                  /\ f.high_risk_merchants = FactorOne \div 5
                  /\ f.offshore_transactions = FactorOne \div 3

C11_Witness ==
    /\ ProbeDone("run") /\ probe.in.txs = C11_Scenario
    /\ probe.out.aml.factors.structuring_patterns = FactorOne \div 5
    /\ probe.out.aml.factors.offshore_transactions = FactorOne \div 3
    /\ probe.out.aml.factors.time_patterns = FactorOne \div 10

\* C14: a run for entity e uses exactly the records of e in the 90-day
\* window: a record of another entity, or one of e older than the cutoff,
\* changes no factor, score or band of the run, and a record of e on the
\* cutoff day is counted.
C14_OnlyTheWindowOfTheEntity ==
    ProbeDone("window") =>
        /\ probe.in.extra \in ProbeOutsideRows => probe.out.with = probe.out.without
        /\ probe.in.extra = ProbeCutoffRow =>
              probe.out.with.credit.factors.transaction_frequency
                  = (BagCardinality(probe.in.table) + 1) * (FactorOne \div 30)

C14_Witness ==
    /\ ProbeDone("window")
    /\ BagCardinality(probe.in.table) = 2
    /\ probe.in.extra.customer_id = "cust_001" /\ probe.in.extra.day = Today - 91
    /\ probe.out.with = probe.out.without
    /\ probe.out.with.credit.factors.transaction_frequency = 2 * (FactorOne \div 30)

\* C16: two runs given the same entity {id, created_at} and the same
\* windowed records produce identical factor sets, identical credit, AML and
\* combined scores and the identical band, so a run made again after a
\* storage failure yields what the failed run would have stored.
C16_SameInputsSameResult ==
    ProbeDone("retry") => probe.out.second = probe.out.first

\* C18: credit_utilization = clamp((sum of amounts / 3) / 10000, 0, 1): 0
\* when the total is zero or negative, 1 when it is at least 30000, the
\* exact ratio in between.
C18_CreditUtilizationClamped ==
    ProbeDone("run") =>
        LET total == SumAmount(probe.in.txs)
            v == probe.out.credit.factors.credit_utilization
        IN  /\ total <= 0 => v = 0
            /\ total >= 30000 => v = FactorOne
            /\ (0 < total /\ total < 30000) => v = (total \div 50) * (FactorOne \div 600)

\* C19: the account-age factor is clamp(1 - age_days / 365, 0, 1) with
\* age_days the whole days from created_at to the run: 0 from 365 days on,
\* never above 1 (also for a created_at later than the run), and
\* non-increasing in age_days.
C19_AccountAgeClamped ==
    /\ ProbeDone("run") =>
          LET age_days == Today - probe.in.created_at
              v == probe.out.credit.factors.account_age
          IN  /\ v = Clamp(FactorOne - age_days * (FactorOne \div 365), FactorOne)
              /\ age_days >= 365 => v = 0
              /\ v <= FactorOne
    /\ ProbeDone("retry") =>
          (probe.in.day >= Today =>
              probe.out.second.credit.factors.account_age
                  <= probe.out.first.credit.factors.account_age)

\* C20: amount_consistency is 0.5 with fewer than two records, 1.0 when the
\* mean of the amounts is exactly zero, and otherwise clamp(population
\* standard deviation / mean, 0, 1) (in hundredths, rounded down), also
\* when the mean is negative: the quotient is then at most 0 and clamps to 0.
C20_AmountConsistency ==
    ProbeDone("run") =>
        LET txs == probe.in.txs
            n == Len(txs)
            S == SumAmount(txs) \div 50
            V == n * SumSquares50(txs) - S * S
            v == probe.out.credit.factors.amount_consistency
            k == (v * 100) \div FactorOne
        IN  /\ n < 2 => v = FactorOne \div 2
            /\ (n >= 2 /\ S = 0) => v = FactorOne
            /\ (n >= 2 /\ S < 0) => v = 0
            /\ (n >= 2 /\ S > 0 /\ V >= S * S) => v = FactorOne
            /\ (n >= 2 /\ S > 0 /\ V < S * S) =>
                  /\ v = k * (FactorOne \div 100)
                  /\ k * k * S * S <= 10000 * V
                  /\ (k + 1) * (k + 1) * S * S > 10000 * V

\* C12: the persisted RiskScore records are append-only: whatever the
\* operation (a scoring run, a failed run, the ingestion of a transaction,
\* data generation, DELETE /data/clear, OSINT enrichment), every record
\* persisted before it is still there after it, at its place and with all
\* of its fields unchanged.
C12_RecordsAppendOnly ==
    [][/\ Len(risk_scores') >= Len(risk_scores)
       /\ SubSeq(risk_scores', 1, Len(risk_scores)) = risk_scores]_vars

C12_Witness ==
    /\ \E r \in RunIds : runs[r].pc = "done"
    /\ \E r \in RunIds : runs[r].pc = "raised" /\ runs[r].failed_at = "store"
    /\ requests > 0
    /\ response.op = "clear"
    /\ Len(risk_scores) = Len(SeedRiskScores(SeedCustomers(SeedAge))) + 3
    /\ SubSeq(risk_scores, 1, 6) = SeedRiskScores(SeedCustomers(SeedAge))

\* the score value of the most recently written record of a type for id
LatestValue(id, type) ==
    LET mine == SelectSeq(risk_scores,
                          LAMBDA row : row.customer_id = id /\ row.score_type = type)
    IN  mine[Len(mine)].score_value

\* C13: in every persisted state an entity's credit_score, aml_score and
\* combined_risk_score are the score values of the most recently written
\* CREDIT, AML and COMBINED record of that entity, and its risk_level is
\* the band of that COMBINED score.
C13_CurrentFieldsAreLatestRecords ==
    \A id \in DOMAIN customers :
        /\ customers[id].credit_score = LatestValue(id, "CREDIT")
        /\ customers[id].aml_score = LatestValue(id, "AML")
        /\ customers[id].combined_risk_score = LatestValue(id, "COMBINED")
        /\ customers[id].risk_level = _determine_risk_level(LatestValue(id, "COMBINED"))

\* C17: POST /transactions processes the new transaction and updates the
\* risk scores: a request for an existing customer is answered with the
\* success response, the transaction is stored, and a scoring run for the
\* customer has completed after it, so that three new records exist for
\* each request served and the current fields are those of a run that read
\* the new transaction.
C17_PostUpdatesScores ==
    (requests > 0 /\ http.customer_id \in DOMAIN customers) =>
        /\ http.status = 200
        /\ BagCardinality(transactions) >= requests
        /\ Len(SelectSeq(risk_scores,
                         LAMBDA row : row.customer_id = http.customer_id /\ row.run # 0))
              >= 3 * requests

\* the RiskScore records of entity id
RecordsOf(id) == SelectSeq(risk_scores, LAMBDA row : row.customer_id = id)

\* what a run for cust_001 computes when it is alone in the system
AloneResult ==
    Scores(EngineInit, SeedCustomers(SeedAge)["cust_001"],
           Windowed(SeedTransactions(SeedAge), "cust_001", Today), Today)

\* C15: a scoring run for entity A, completed or failed and in any
\* interleaving with runs for other entities, leaves the current fields and
\* the records of every other entity B unchanged, and its result does not
\* depend on any run for B: every run for cust_001 computes and records
\* what a run alone in the system does, whatever runs and transactions of
\* cust_002 come between.
C15_RunsOfOtherEntitiesIndependent ==
    /\ [](\A r \in RunIds :
            /\ (runs[r].pc = "store" /\ runs[r].customer_id = "cust_001") =>
                  /\ runs[r].computed.credit_score = AloneResult.credit.score
                  /\ runs[r].computed.aml_score = AloneResult.aml.score
                  /\ runs[r].computed.combined_risk_score = AloneResult.combined.score
                  /\ runs[r].computed.risk_level = AloneResult.risk_level
            /\ RowsOf(r, "cust_001") # <<>> =>
                  /\ ValueOf(RowsOf(r, "cust_001"), "CREDIT") = AloneResult.credit.score
                  /\ ValueOf(RowsOf(r, "cust_001"), "AML") = AloneResult.aml.score
                  /\ ValueOf(RowsOf(r, "cust_001"), "COMBINED")
                        = AloneResult.combined.score)
    /\ [][\A r \in RunIds :
            runs'[r] # runs[r] =>
                \A B \in DOMAIN customers \ {runs'[r].customer_id} :
                    /\ customers'[B] = customers[B]
                    /\ RecordsOf(B)' = RecordsOf(B)]_vars

C15_Witness ==
    /\ \E r \in RunIds : runs[r].pc = "done" /\ runs[r].customer_id = "cust_001"
    /\ \E r \in RunIds : runs[r].pc = "done" /\ runs[r].customer_id = "cust_002"
    /\ \E r \in RunIds : runs[r].pc = "raised" /\ runs[r].failed_at = "store"
    /\ requests > 0
    /\ customers["cust_001"].credit_score = AloneResult.credit.score
    /\ customers["cust_002"].aml_score > 0
    /\ customers["cust_002"].aml_score # SeedCustomers(SeedAge)["cust_002"].aml_score

ConfidenceOf(rows, type) ==
    LET i == CHOOSE j \in 1..Len(rows) : rows[j].score_type = type
    IN  rows[i].confidence

\* C21: each dimension score equals clamp(sum over the dimension's weight
\* table of factor * weight, 0, 1), and the factor set of a dimension has
\* exactly the keys of its weight table: five for credit, six for AML.
C21_DimensionScoreIsClampedWeightedSum ==
    ProbeDone("run") =>
        LET credit == probe.out.credit
            aml == probe.out.aml
        IN  /\ DOMAIN credit.factors = DOMAIN engine.credit_weights
            /\ Cardinality(DOMAIN credit.factors) = 5
            /\ DOMAIN aml.factors = DOMAIN engine.aml_weights
            /\ Cardinality(DOMAIN aml.factors) = 6
            /\ credit.score =
                 Clamp(WeightedSum(credit.factors, engine.credit_weights,
                                   DOMAIN engine.credit_weights), ScoreOne)
            /\ aml.score =
                 Clamp(WeightedSum(aml.factors, engine.aml_weights,
                                   DOMAIN engine.aml_weights), ScoreOne)

\* C22: every CREDIT record written by a run carries confidence 0.85, every
\* AML record 0.90, and the COMBINED record of the same run the mean of the
\* two (0.875), whatever the windowed transactions of the run were.
C22_ConfidencesOfARun ==
    \A q \in RunIds, id \in CustIds :
        LET rows == RowsOf(q, id)
        IN  rows # <<>> =>
              /\ RowTypes(rows) = {"CREDIT", "AML", "COMBINED"}
              /\ ConfidenceOf(rows, "CREDIT") = 850
              /\ ConfidenceOf(rows, "AML") = 900
              /\ ConfidenceOf(rows, "COMBINED") = 875
              /\ 2 * ConfidenceOf(rows, "COMBINED")
                   = ConfidenceOf(rows, "CREDIT") + ConfidenceOf(rows, "AML")

\* two runs with different windows (before and after a POST /transactions)
\* have both written their records
C22_Witness ==
    \E q1 \in RunIds, q2 \in RunIds :
        /\ RowsOf(q1, "cust_001") # <<>> /\ RowsOf(q2, "cust_001") # <<>>
        /\ ValueOf(RowsOf(q1, "cust_001"), "AML") = 0
        /\ ValueOf(RowsOf(q2, "cust_001"), "AML") > 0
        /\ ConfidenceOf(RowsOf(q2, "cust_001"), "COMBINED") = 875

\* clamp(0.4 * credit_score + 0.6 * aml_score, 0, 1)
CombinationPolicy(credit_score, aml_score) ==
    Clamp(CombinedSum(credit_score, aml_score), ScoreOne)

\* C23: in every persisted state, the seeded one included, each customer's
\* combined_risk_score equals clamp(0.4 * credit_score + 0.6 * aml_score,
\* 0, 1), and so does the COMBINED value of each CREDIT / AML / COMBINED
\* triple of records written together.
C23_StoredScoresFollowThePolicy ==
    /\ \A id \in DOMAIN customers :
          customers[id].combined_risk_score
            = CombinationPolicy(customers[id].credit_score, customers[id].aml_score)
    /\ \A q \in {0} \cup RunIds, id \in CustIds :
          LET rows == RowsOf(q, id)
          IN  rows # <<>> =>
                ValueOf(rows, "COMBINED")
                  = CombinationPolicy(ValueOf(rows, "CREDIT"), ValueOf(rows, "AML"))

\* C26: whenever POST /transactions answers HTTP 500, no new row has been
\* added to transactions.
C26_FailedPostStoresNothing ==
    [][ (requests' = requests + 1 /\ http'.status = 500)
            => transactions' = transactions ]_vars

\* C25: for every windowed list and every additional record, adding the
\* record decreases none of the six AML factors nor the AML score (the
\* credit score may decrease).
C25_AmlMonotoneInTheWindow ==
    ProbeDone("extend") =>
        /\ \A f \in AmlFactors :
              probe.out.without.aml.factors[f] <= probe.out.with.aml.factors[f]
        /\ probe.out.without.aml.score <= probe.out.with.aml.score

\* a record that raises an AML factor and the AML score while the credit
\* score goes down: a second 950 at a denylisted merchant after a first 950
C25_Witness ==
    /\ ProbeDone("extend")
    /\ Len(probe.in.txs) = 1
    /\ probe.in.extra.merchant = "Crypto Exchange"
    /\ probe.out.without.aml.factors["structuring_patterns"]
         < probe.out.with.aml.factors["structuring_patterns"]
    /\ probe.out.without.aml.score < probe.out.with.aml.score
    /\ probe.out.with.credit.score < probe.out.without.credit.score

\* the customers the data agent answers from
KnownCustomers ==
    IF generated_customers # <<>> THEN generated_customers ELSE FallbackCustomers

Count(list, x) == Cardinality({i \in 1..Len(list) : list[i] = x})

\* C27: for every limit >= 0 and every min_risk_score, with generated data
\* and without, get_risky_customers returns at most limit customers, each
\* with combined_risk_score >= min_risk_score, in non-increasing order of
\* combined_risk_score, and no customer left out has a higher
\* combined_risk_score than one returned.
C27_RiskyCustomersAreTheTop ==
    response.op = "get_risky_customers" =>
        LET res == response.customers
        IN  /\ Len(res) <= response.limit
            /\ \A i \in 1..Len(res) :
                  /\ res[i].combined_risk_score >= response.min_risk_score
                  /\ Count(res, res[i]) <= Count(KnownCustomers, res[i])
            /\ \A i \in 1..Len(res), j \in 1..Len(res) :
                  i < j => res[i].combined_risk_score >= res[j].combined_risk_score
            /\ \A k \in 1..Len(KnownCustomers) :
                  LET x == KnownCustomers[k]
                  IN  Count(res, x) < Count(KnownCustomers, x) =>
                        \A i \in 1..Len(res) :
                            x.combined_risk_score <= res[i].combined_risk_score

\* generated customers that were stored in increasing order of score, two
\* of them returned in decreasing order and one above the minimum cut off
C27_Witness ==
    /\ response.op = "get_risky_customers"
    /\ Len(generated_customers) = 4
    /\ generated_customers[1].combined_risk_score < generated_customers[2].combined_risk_score
    /\ generated_customers[2].combined_risk_score < generated_customers[3].combined_risk_score
    /\ response.limit = 2 /\ Len(response.customers) = 2
    /\ response.customers[1].combined_risk_score > response.customers[2].combined_risk_score
    /\ \E k \in 1..4 :
          /\ generated_customers[k].combined_risk_score >= response.min_risk_score
          /\ Count(response.customers, generated_customers[k]) = 0

\* risk_level is the band of combined_risk_score (in hundredths) in every
\* customer of the list
BandsAgree(list) ==
    \A i \in 1..Len(list) :
        list[i].risk_level
          = _determine_risk_level(Hundredths(list[i].combined_risk_score))

\* C24: in every reachable state every customer the system holds or
\* returns (in the database, in the data agent's fallback lists, generated
\* by generate_customer_data, returned by a getter) has the risk_level of
\* the band of its combined_risk_score under the thresholds 0.8 / 0.6 / 0.4.
C24_RiskLevelIsTheBand ==
    /\ \A id \in DOMAIN customers :
          customers[id].risk_level
            = _determine_risk_level(customers[id].combined_risk_score)
    /\ BandsAgree(FallbackCustomers)
    /\ BandsAgree(FallbackRiskyCustomers)
    /\ BandsAgree(generated_customers)
    /\ response.op \in {"get_all_customers", "get_risky_customers"}
          => BandsAgree(response.customers)

\* what a reply of one of the three getters says about the customers
NoCustomersIn(reply) ==
    CASE reply.op \in {"get_all_customers", "get_risky_customers"} ->
            reply.customers = <<>>
      [] reply.op = "get_dashboard_stats" ->
            /\ reply.stats.total_customers = 0
            /\ \A l \in RiskLevels : reply.stats.risk_score_distribution[l] = 0

\* C28: after clear_all_data, and until the next generate_customer_data,
\* get_all_customers and get_risky_customers return no customers and
\* get_dashboard_stats reports none.  Only generate and clear change the
\* stored list, so the getter that follows the clear decides all of them.
C28_ClearedMeansNoCustomers ==
    [][ ( /\ response.op = "clear"
          /\ response'.op \in {"get_all_customers", "get_risky_customers",
                               "get_dashboard_stats"} )
            => NoCustomersIn(response') ]_vars

\* C29: for every num_customers >= 1 generate_customer_data produces
\* exactly num_customers customers (total_generated = num_customers) in
\* place of the stored ones, and a get_all_customers that follows it with
\* limit >= num_customers, offset 0 and no filter returns exactly those.
C29_GeneratesExactlyN ==
    /\ [](response.op = "generate" =>
            /\ ~response.error
            /\ response.total_generated = response.num_customers
            /\ Len(generated_customers) = response.num_customers)
    /\ [][ ( /\ response.op = "generate"
             /\ response'.op = "get_all_customers"
             /\ response'.risk_level = "none" /\ response'.offset = 0
             /\ response'.limit >= response.num_customers )
               => /\ response'.customers = generated_customers
                  /\ Len(response'.customers) = response.num_customers ]_vars

\* the signals of the reply that carry the type of check i
SignalsOfCheck(reply, i) ==
    SelectSeq(reply.signals,
              LAMBDA sig : sig.signal_type = OsintSignals(reply.customer_id)[i].signal_type)

\* C30: enrich_customer returns a list whatever happens: a check that fails
\* contributes no signal and does not keep the signals of the other checks
\* from being returned, each check contributes at most one signal, and on
\* any other failure the result is the empty list.
C30_FailedChecksContributeNothing ==
    response.op = "enrich" =>
        /\ response.lookup = "raised" => response.signals = <<>>
        /\ response.lookup = "ok" =>
              \A i \in 1..5 :
                  /\ Len(SignalsOfCheck(response, i)) <= 1
                  /\ response.outcomes[i] # "ok" => SignalsOfCheck(response, i) = <<>>
                  /\ response.outcomes[i] = "ok" =>
                        SignalsOfCheck(response, i)
                          = <<OsintSignals(response.customer_id)[i]>>

====
